---- MODULE Spec2Model ----
(***************************************************************************)
(* Environment lifecycle and container orchestration of the BotGlue daemon. *)
(*                                                                         *)
(* State: the `environments` table (rows), the containers known to the     *)
(* container runtime (ctrs), and one record of locals per request handler. *)
(* Every database function takes the connection mutex for its own duration *)
(* only, so each one is a single atomic step; a handler is a sequence of   *)
(* such steps and of awaited runtime calls, and handlers of different      *)
(* requests interleave between steps.                                      *)
(***************************************************************************)
EXTENDS Integers, Sequences, FiniteSets, TLC

\* ------------------------------------------------------------- bounds
NumHandlers == 2        \* concurrent request handlers
MaxEnvs == 2            \* environments ever created in one run
RangeSize == 1          \* ports in the configured range
MaxCalls == 3           \* requests taken up in one run
MaxRequested == 3       \* mappings in a wishlist handed to the allocator alone
MaxRange == 2           \* ports in a range handed to the allocator alone
MaxAgents == 2          \* agents of one project on the dashboard

\* -------------------------------------------------- program constants
PortRangeStart == 10000
UiPort == 3000

PortRangeEnd == PortRangeStart + RangeSize - 1
PortRange == PortRangeStart..PortRangeEnd

Handlers == 1..NumHandlers
EnvIds == 1..MaxEnvs

\* Option<u16>::None of PortMapping.host_port
NoPort == 0
\* the empty container_id ('' in the table)
NoContainer == 0
\* get_environment's Ok(None)
NoRow == [status |-> "none"]

\* the characters of the container name taken from the environment id
NamePrefixLen == 8

\* the ids uuid::Uuid::new_v4().to_string() can return, as lists of
\* characters: one hex digit varies inside the first eight, one behind them
HexDigits == {"0", "f"}
Uuids ==
    {<<a, "0", "0", "0", "0", "0", "0", "0", "-", b>> : a \in HexDigits, b \in HexDigits}

\* no id generated yet
NoUuid == <<>>

\* botglue-{first 8 chars of env_id}
container_name(env_id) ==
    <<"b", "o", "t", "g", "l", "u", "e", "-">> \o SubSeq(env_id, 1, NamePrefixLen)

Projects == {"p1"}
Branches == {"feature/x"}

\* PortMapping { name, container_port, host_port, protocol }
PortMapping(h) ==
    [name |-> "ui", container_port |-> UiPort, host_port |-> h, protocol |-> "tcp"]

\* the wishlists a create request may carry: one mapping whose host_port
\* is unset or explicit
Wishlists == {<<PortMapping(h)>> : h \in {NoPort} \cup PortRange}

\* CreateEnvironment { project_id, branch, ports }
CreateEnvironment == [project_id : Projects, branch : Branches, ports : Wishlists]

HostPorts(ports) == {ports[i].host_port : i \in 1..Len(ports)} \ {NoPort}

\* ------------------------------------------------------- State Store

\* INSERT INTO environments (...) VALUES (id, project_id, branch, 'creating', '', ports)
create_environment(rs, id, input) ==
    [rs EXCEPT ![id] = [status |-> "creating",
                        project_id |-> input.project_id,
                        branch |-> input.branch,
                        container_id |-> NoContainer,
                        ports |-> input.ports]]

\* SELECT ... FROM environments WHERE id = ?1
get_environment(rs, id) == rs[id]

\* rows > 0 of an UPDATE or DELETE ... WHERE id = ?
RowMatched(rs, id) == rs[id] # NoRow

\* faulty variant: the WHERE clause matches no row, so nothing is written
update_environment_status_unmatched(rs, id, status) == rs

\* faulty variant: the UPDATE also writes the column default '[]' to ports
update_environment_status_reset(rs, id, status) ==
    IF rs[id] # NoRow THEN [rs EXCEPT ![id].status = status, ![id].ports = <<>>] ELSE rs

\* UPDATE environments SET status = ?1, last_active = ?2 WHERE id = ?3
update_environment_status(rs, id, status) ==
    IF RowMatched(rs, id) THEN [rs EXCEPT ![id].status = status] ELSE rs

\* faulty variant: INSERT OR REPLACE, a row that is gone is written anew
update_environment_container_upsert(rs, id, cid, ports, status) ==
    IF rs[id] # NoRow
    THEN [rs EXCEPT ![id].container_id = cid, ![id].ports = ports, ![id].status = status]
    ELSE [rs EXCEPT ![id] = [status |-> status, project_id |-> "p1", branch |-> "feature/x",
                             container_id |-> cid, ports |-> ports]]

\* faulty variant: the UPDATE leaves the container_id column out
update_environment_container_no_id(rs, id, cid, ports, status) ==
    IF rs[id] # NoRow THEN [rs EXCEPT ![id].ports = ports, ![id].status = status] ELSE rs

\* UPDATE environments SET container_id, ports, status, last_active WHERE id
update_environment_container(rs, id, cid, ports, status) ==
    IF RowMatched(rs, id)
    THEN [rs EXCEPT ![id].container_id = cid, ![id].ports = ports, ![id].status = status]
    ELSE rs

\* faulty variant: the row is kept and only marked destroyed
delete_environment_tombstone(rs, id) ==
    IF rs[id] # NoRow THEN [rs EXCEPT ![id].status = "destroyed"] ELSE rs

\* DELETE FROM environments WHERE id = ?1
delete_environment(rs, id) == [rs EXCEPT ![id] = NoRow]

\* host ports of the ports JSON of all non-destroyed environments
get_used_ports(rs) ==
    UNION {HostPorts(rs[id].ports) :
             id \in {i \in EnvIds : RowMatched(rs, i) /\ rs[i].status # "destroyed"}}

\* ---------------------------------------------------- Port Allocator

AllocOk(ports) == [ok |-> TRUE, ports |-> ports, error |-> "none"]
AllocErr(kind) == [ok |-> FALSE, ports |-> <<>>, error |-> kind]

\* PodmanConfig { port_range_start, port_range_end }
PodmanConfig == [port_range_start |-> PortRangeStart, port_range_end |-> PortRangeEnd]

\* faulty variant: the scan runs from the high end of the range
first_free_descending(config, used) ==
    LET free == {p \in config.port_range_start..config.port_range_end : p \notin used}
    IN IF free = {} THEN NoPort ELSE CHOOSE p \in free : \A q \in free : p >= q

\* the ascending scan of the range: the first port not in the working used set
first_free(config, used) ==
    LET free == {p \in config.port_range_start..config.port_range_end : p \notin used}
    IN IF free = {} THEN NoPort ELSE CHOOSE p \in free : \A q \in free : p <= q

\* faulty variant: an assigned port is not added to the working used set
RECURSIVE allocate_from_forgetful(_, _, _, _, _)
allocate_from_forgetful(config, used, requested, i, acc) ==
    IF i > Len(requested) THEN AllocOk(acc)
    ELSE LET m == requested[i]
         IN IF m.host_port # NoPort
            THEN IF m.host_port \in used
                 THEN AllocErr("PortConflict")
                 ELSE allocate_from_forgetful(config, used \cup {m.host_port}, requested, i + 1,
                                              Append(acc, m))
            ELSE LET p == first_free(config, used)
                 IN IF p = NoPort
                    THEN AllocErr("RangeExhausted")
                    ELSE allocate_from_forgetful(config, used, requested, i + 1,
                                                 Append(acc, [m EXCEPT !.host_port = p]))

\* faulty variant: an explicit host_port is kept without looking at the used set
RECURSIVE allocate_from_unchecked(_, _, _, _, _)
allocate_from_unchecked(config, used, requested, i, acc) ==
    IF i > Len(requested) THEN AllocOk(acc)
    ELSE LET m == requested[i]
         IN IF m.host_port # NoPort
            THEN allocate_from_unchecked(config, used \cup {m.host_port}, requested, i + 1,
                                         Append(acc, m))
            ELSE LET p == first_free(config, used)
                 IN IF p = NoPort
                    THEN AllocErr("RangeExhausted")
                    ELSE allocate_from_unchecked(config, used \cup {p}, requested, i + 1,
                                                 Append(acc, [m EXCEPT !.host_port = p]))

\* faulty variant: a kept explicit host_port is not added to the working used set
RECURSIVE allocate_from_unrecorded(_, _, _, _, _)
allocate_from_unrecorded(config, used, requested, i, acc) ==
    IF i > Len(requested) THEN AllocOk(acc)
    ELSE LET m == requested[i]
         IN IF m.host_port # NoPort
            THEN IF m.host_port \in used
                 THEN AllocErr("PortConflict")
                 ELSE allocate_from_unrecorded(config, used, requested, i + 1, Append(acc, m))
            ELSE LET p == first_free(config, used)
                 IN IF p = NoPort
                    THEN AllocErr("RangeExhausted")
                    ELSE allocate_from_unrecorded(config, used \cup {p}, requested, i + 1,
                                                  Append(acc, [m EXCEPT !.host_port = p]))

RECURSIVE allocate_from(_, _, _, _, _)
allocate_from(config, used, requested, i, acc) ==
    IF i > Len(requested) THEN AllocOk(acc)
    ELSE LET m == requested[i]
         IN IF m.host_port # NoPort
            THEN IF m.host_port \in used
                 THEN AllocErr("PortConflict")
                 ELSE allocate_from(config, used \cup {m.host_port}, requested, i + 1,
                                    Append(acc, m))
            ELSE LET p == first_free(config, used)
                 IN IF p = NoPort
                    THEN AllocErr("RangeExhausted")
                    ELSE allocate_from(config, used \cup {p}, requested, i + 1,
                                       Append(acc, [m EXCEPT !.host_port = p]))

allocate_ports(config, used_ports, requested) ==
    allocate_from(config, used_ports, requested, 1, <<>>)

\* -------------------------------------------- Container Runtime Adapter

\* what a runtime invocation can end in besides success
Failures == {"RuntimeFailed", "Timeout"}

Absent == [state |-> "absent", hports |-> {}]

\* the container id the runtime assigns to the container of environment id
NewContainerId(id) == id

\* a host port can be bound unless a running container holds it
CanBind(cs, hports) ==
    \A c \in EnvIds : cs[c].state = "running" => cs[c].hports \cap hports = {}

\* podman run -d --name .. -p h:c .. image sleep infinity
create_container(cs, c, hports) ==
    [cs EXCEPT ![c] = [state |-> "running", hports |-> hports]]

\* faulty variant: stopping an already stopped container is a command failure
CanStop_OnlyRunning(cs, c) == c # NoContainer /\ cs[c].state = "running"

\* podman stop: exit 0 on a running or an already stopped container
CanStop(cs, c) == c # NoContainer /\ cs[c].state # "absent"
stop_container(cs, c) == [cs EXCEPT ![c].state = "stopped"]

\* podman start: exit 0 on an already running container; binds the ports again
CanStart(cs, c) ==
    /\ c # NoContainer
    /\ \/ cs[c].state = "running"
       \/ cs[c].state = "stopped" /\ CanBind(cs, cs[c].hports)
start_container(cs, c) == [cs EXCEPT ![c].state = "running"]

\* podman rm -f
CanRemove(cs, c) == c # NoContainer /\ cs[c].state # "absent"
remove_container(cs, c) == [cs EXCEPT ![c] = Absent]

\* podman exec id sh -c cmd: needs a running container
CanExec(cs, c) == c # NoContainer /\ cs[c].state = "running"

\* the commands an exec request may carry
Commands == {"echo ok", "false"}

\* ExecResult { output, exit_code } of running the command in the container
exec_in_container(cs, c, command) ==
    IF command = "echo ok" THEN [output |-> "ok", exit_code |-> 0]
    ELSE [output |-> "", exit_code |-> 1]

\* the runtime states a failed invocation can leave behind: a command that
\* failed changed nothing; one that timed out may have taken effect or not
Outcomes(f, possible, before, after) ==
    IF f = "Timeout" /\ possible THEN {before, after} ELSE {before}

\* ------------------------------------------------------------- state

VARIABLES
    rows,      \* the environments table: id -> row or NoRow
    issued,    \* how many environment ids have been generated
    started,   \* how many requests have been taken up
    ctrs,      \* the runtime's containers: container id -> state and bound ports
    calls,     \* the Runtime Adapter operation each handler invoked in its call
    pc,        \* each handler's position
    op,        \* the operation a handler runs (or ran last)
    env,       \* the environment id of that operation
    req,       \* create: the wishlist of the request's body
    cmd,       \* exec: the command of the request's body
    alloc,     \* create: the allocator's result
    cid,       \* the container_id the handler read or obtained
    err,       \* create: the error to re-raise; otherwise: the hard failure of the runtime call
    result,    \* the outcome the handler returned last
    ret,       \* the value returned with it (create, get: the environment; exec: the result)
    conc,      \* the handlers a call of which overlapped this one's current or last call
    unremoved, \* whether a removeContainer of an existing container has failed
    in_config,     \* allocator alone: the PodmanConfig it is called with
    in_used,       \* allocator alone: used_ports
    in_requested,  \* allocator alone: requested
    out_alloc,     \* allocator alone: what allocate_ports returned
    fetched,       \* dashboard: what the API returns to loadData
    projects,      \* dashboard: the projects state of DashboardPage
    loading,       \* dashboard: the loading state of DashboardPage
    uuid_of,       \* naming: the id column of each environment
    page,          \* detail page: the state of EnvironmentDetailPage
    backend,       \* detail page: the status the daemon holds for the environment
    response,      \* API client: what fetch is going to produce
    promise        \* API client: the promise request() returned

hvars == <<rows, issued, started, ctrs, calls, pc, op, env, req, cmd, alloc, cid, err, result, ret, conc,
          unremoved>>
avars == <<in_config, in_used, in_requested, out_alloc>>
dvars == <<fetched, projects, loading>>
nvars == <<uuid_of>>
uvars == <<page, backend>>
cvars == <<response, promise>>
vars == <<hvars, avars, dvars, nvars, uvars, cvars>>

NoValue == [status |-> "none"]

\* the allocator has not been called
Pending == [ok |-> FALSE, ports |-> <<>>, error |-> "pending"]

HandlersInit ==
    /\ rows = [id \in EnvIds |-> NoRow]
    /\ issued = 0
    /\ started = 0
    /\ ctrs = [c \in EnvIds |-> Absent]
    /\ calls = [p \in Handlers |-> "none"]
    /\ pc = [p \in Handlers |-> "idle"]
    /\ op = [p \in Handlers |-> "none"]
    /\ env = [p \in Handlers |-> 0]
    /\ req = [p \in Handlers |-> <<>>]
    /\ cmd = [p \in Handlers |-> ""]
    /\ alloc = [p \in Handlers |-> <<>>]
    /\ cid = [p \in Handlers |-> NoContainer]
    /\ err = [p \in Handlers |-> "none"]
    /\ result = [p \in Handlers |-> "none"]
    /\ ret = [p \in Handlers |-> NoValue]
    /\ conc = [p \in Handlers |-> {}]
    /\ unremoved = FALSE

\* no call of the allocator alone
AllocatorIdle ==
    /\ in_config = PodmanConfig
    /\ in_used = {}
    /\ in_requested = <<>>
    /\ out_alloc = Pending

\* useState([]), useState(true): the dashboard before loadData has run
DashboardInit ==
    /\ projects = <<>>
    /\ loading = TRUE

\* no id has been generated
NamingInit == uuid_of = [k \in EnvIds |-> NoUuid]

\* the useState initial values of EnvironmentDetailPage; pending is the
\* request of a handler that is awaiting its response
PageInit ==
    page = [loading |-> TRUE, error |-> FALSE, environment |-> "null",
            actionLoading |-> FALSE, command |-> "", execLoading |-> FALSE,
            pending |-> "none", navigated |-> FALSE]

\* the detail page is not open
DetailIdle == PageInit /\ backend = "creating"

\* the promise of a request whose fetch has not settled
Fetching ==
    [state |-> "fetching", value |-> "none", error |-> "none", status |-> 0,
     bodyRead |-> FALSE]

\* no request is made through the API client
ClientIdle ==
    /\ response = [arrives |-> FALSE, status |-> 0, body |-> ""]
    /\ promise = Fetching

Init ==
    /\ HandlersInit
    /\ AllocatorIdle
    /\ DashboardInit
    /\ NamingInit
    /\ DetailIdle
    /\ ClientIdle
    /\ fetched = <<>>

InFlight(q) == pc[q] # "idle"

\* a request enters handler p: it overlaps exactly the calls now in flight
Overlaps(p) ==
    [q \in Handlers |->
        IF q = p THEN {h \in Handlers \ {p} : InFlight(h)}
        ELSE IF InFlight(q) THEN conc[q] \cup {p} ELSE conc[q]]

\* handler p invokes the Runtime Adapter
Invoke(p, what) == calls' = [calls EXCEPT ![p] = what]

\* a request is taken up by the first idle handler, p
Begin(p, what, id, wish, command) ==
    /\ pc[p] = "idle"
    /\ \A q \in Handlers : q < p => InFlight(q)
    /\ started < MaxCalls
    /\ started' = started + 1
    /\ op' = [op EXCEPT ![p] = what]
    /\ env' = [env EXCEPT ![p] = id]
    /\ req' = [req EXCEPT ![p] = wish]
    /\ cmd' = [cmd EXCEPT ![p] = command]
    /\ alloc' = [alloc EXCEPT ![p] = <<>>]
    /\ err' = [err EXCEPT ![p] = "none"]
    /\ calls' = [calls EXCEPT ![p] = "none"]
    /\ conc' = Overlaps(p)
    /\ UNCHANGED unremoved

\* the class in which the transport layer surfaces an error
ErrorClass(e) ==
    IF e \in {"Conflict", "PortConflict", "NotFound"} THEN "4xx"
    ELSE IF e \in {"RuntimeFailed", "RuntimeUnavailable", "RangeExhausted", "Timeout"} THEN "5xx"
    ELSE "2xx"

\* handler p returns res (and the value v) to its caller
Finish(p, res, v) ==
    /\ pc' = [pc EXCEPT ![p] = "idle"]
    /\ result' = [result EXCEPT ![p] = res]
    /\ ret' = [ret EXCEPT ![p] = v]
    /\ cid' = [cid EXCEPT ![p] = NoContainer]

\* handler p goes on to its next step
Goto(p, where) ==
    /\ pc' = [pc EXCEPT ![p] = where]
    /\ result' = [result EXCEPT ![p] = "none"]
    /\ ret' = [ret EXCEPT ![p] = NoValue]

\* ------------------------------------- Environment Lifecycle Orchestrator

\* create, step 1: insert the record (status "creating") with the wishlist
CreateInsert(p) ==
    /\ issued < MaxEnvs
    /\ \E input \in CreateEnvironment :
         /\ Begin(p, "create", issued + 1, input.ports, "")
         /\ rows' = create_environment(rows, issued + 1, input)
    /\ issued' = issued + 1
    /\ Goto(p, "c_alloc")
    /\ UNCHANGED <<ctrs, cid>>

\* create, step 2: read the used ports and run the allocator on the wishlist
CreateAllocate(p) ==
    /\ pc[p] = "c_alloc"
    /\ LET a == allocate_ports(PodmanConfig, get_used_ports(rows), req[p])
       IN IF a.ok
          THEN /\ alloc' = [alloc EXCEPT ![p] = a.ports]
               /\ Goto(p, "c_container")
               /\ UNCHANGED err
          ELSE /\ err' = [err EXCEPT ![p] = a.error]
               /\ Goto(p, "c_destroy")
               /\ UNCHANGED alloc
    /\ UNCHANGED <<rows, issued, started, ctrs, calls, op, env, req, cmd, cid, conc, unremoved>>

\* create, step 3: create the container with the allocated bindings
CreateContainer(p) ==
    /\ pc[p] = "c_container"
    /\ Invoke(p, "create")
    /\ \/ /\ CanBind(ctrs, HostPorts(alloc[p]))
          /\ ctrs' = create_container(ctrs, NewContainerId(env[p]), HostPorts(alloc[p]))
          /\ cid' = [cid EXCEPT ![p] = NewContainerId(env[p])]
          /\ Goto(p, "c_persist")
          /\ UNCHANGED err
       \/ /\ \E f \in Failures :
               /\ err' = [err EXCEPT ![p] = f]
               /\ ctrs' \in Outcomes(f, CanBind(ctrs, HostPorts(alloc[p])), ctrs,
                                    create_container(ctrs, NewContainerId(env[p]),
                                                     HostPorts(alloc[p])))
          /\ Goto(p, "c_destroy")
          /\ UNCHANGED cid
    /\ UNCHANGED <<rows, issued, started, op, env, req, cmd, alloc, conc, unremoved>>

\* create, step 4: persist container_id, the allocated ports and status
\* "running" in one call, and return the updated environment
CreatePersist(p) ==
    /\ pc[p] = "c_persist"
    /\ rows' = update_environment_container(rows, env[p], cid[p], alloc[p], "running")
    /\ IF RowMatched(rows, env[p])
       THEN Finish(p, "ok", get_environment(rows', env[p]))
       ELSE Finish(p, "NotFound", NoValue)
    /\ UNCHANGED <<issued, started, ctrs, calls, op, env, req, cmd, alloc, err, conc, unremoved>>

\* faulty variant: the error is returned without the compensating update
CreateDestroy_Uncompensated(p) ==
    /\ pc[p] = "c_destroy"
    /\ Finish(p, err[p], NoValue)
    /\ UNCHANGED <<rows, issued, started, ctrs, calls, op, env, req, cmd, alloc, err, conc, unremoved>>

\* create, step 5: on failure set the status to "destroyed" and return the error
CreateDestroy(p) ==
    /\ pc[p] = "c_destroy"
    /\ rows' = update_environment_status(rows, env[p], "destroyed")
    /\ Finish(p, err[p], NoValue)
    /\ UNCHANGED <<issued, started, ctrs, calls, op, env, req, cmd, alloc, err, conc, unremoved>>

\* faulty variant: pause only refuses a destroyed environment
PauseAllowed_NotDestroyed(status) == status # "destroyed"

\* the status a pause requires
PauseAllowed(status) == status = "running"

\* pause, step 1: get the environment and check that it is running
PauseGet(p, id) ==
    /\ Begin(p, "pause", id, <<>>, "")
    /\ LET e == get_environment(rows, id)
       IN IF e = NoRow THEN Finish(p, "NotFound", NoValue)
          ELSE IF ~PauseAllowed(e.status) THEN Finish(p, "Conflict", NoValue)
          ELSE /\ cid' = [cid EXCEPT ![p] = e.container_id]
               /\ Goto(p, IF e.container_id # NoContainer THEN "p_stop" ELSE "p_update")
    /\ UNCHANGED <<rows, issued, ctrs>>

\* faulty variant: the status is updated although the stop failed
StopFailure_Swallowed(p, f) ==
    /\ Goto(p, "p_update")
    /\ UNCHANGED cid

\* pause, step 2 on failure: the error is returned, step 3 is not run
StopFailure(p, f) == Finish(p, f, NoValue)

\* pause, step 2: stop the container; the runtime answers (exit 0, or a
\* command failure when there is no such container), or the invocation
\* fails hard or times out
PauseStop(p) ==
    /\ pc[p] = "p_stop"
    /\ Invoke(p, "stop")
    /\ \/ /\ CanStop(ctrs, cid[p])
          /\ ctrs' = stop_container(ctrs, cid[p])
          /\ Goto(p, "p_update")
          /\ UNCHANGED <<cid, err>>
       \/ /\ ~CanStop(ctrs, cid[p])
          /\ StopFailure(p, "RuntimeFailed")
          /\ UNCHANGED <<ctrs, err>>
       \/ \E f \in Failures :
            /\ ctrs' \in Outcomes(f, CanStop(ctrs, cid[p]), ctrs, stop_container(ctrs, cid[p]))
            /\ err' = [err EXCEPT ![p] = f]
            /\ StopFailure(p, f)
    /\ UNCHANGED <<rows, issued, started, op, env, req, cmd, alloc, conc, unremoved>>

\* pause, step 3: update the status to "paused"
PauseUpdate(p) ==
    /\ pc[p] = "p_update"
    /\ rows' = update_environment_status(rows, env[p], "paused")
    /\ Finish(p, IF RowMatched(rows, env[p]) THEN "ok" ELSE "NotFound", NoValue)
    /\ UNCHANGED <<issued, started, ctrs, calls, op, env, req, cmd, alloc, err, conc, unremoved>>

\* faulty variant: resume only refuses a destroyed environment
ResumeAllowed_NotDestroyed(status) == status # "destroyed"

\* the status a resume requires
ResumeAllowed(status) == status = "paused"

\* resume, step 1: get the environment and check that it is paused
ResumeGet(p, id) ==
    /\ Begin(p, "resume", id, <<>>, "")
    /\ LET e == get_environment(rows, id)
       IN IF e = NoRow THEN Finish(p, "NotFound", NoValue)
          ELSE IF ~ResumeAllowed(e.status) THEN Finish(p, "Conflict", NoValue)
          ELSE /\ cid' = [cid EXCEPT ![p] = e.container_id]
               /\ Goto(p, IF e.container_id # NoContainer THEN "r_start" ELSE "r_update")
    /\ UNCHANGED <<rows, issued, ctrs>>

\* resume, step 2 on failure: the error is returned, step 3 is not run
StartFailure(p, f) == Finish(p, f, NoValue)

\* resume, step 2: start the container; the runtime answers (exit 0, or a
\* command failure when the container cannot be started), or the invocation
\* fails hard or times out
ResumeStart(p) ==
    /\ pc[p] = "r_start"
    /\ Invoke(p, "start")
    /\ \/ /\ CanStart(ctrs, cid[p])
          /\ ctrs' = start_container(ctrs, cid[p])
          /\ Goto(p, "r_update")
          /\ UNCHANGED <<cid, err>>
       \/ /\ ~CanStart(ctrs, cid[p])
          /\ StartFailure(p, "RuntimeFailed")
          /\ UNCHANGED <<ctrs, err>>
       \/ \E f \in Failures :
            /\ ctrs' \in Outcomes(f, CanStart(ctrs, cid[p]), ctrs, start_container(ctrs, cid[p]))
            /\ err' = [err EXCEPT ![p] = f]
            /\ StartFailure(p, f)
    /\ UNCHANGED <<rows, issued, started, op, env, req, cmd, alloc, conc, unremoved>>

\* resume, step 3: update the status to "running"
ResumeUpdate(p) ==
    /\ pc[p] = "r_update"
    /\ rows' = update_environment_status(rows, env[p], "running")
    /\ Finish(p, IF RowMatched(rows, env[p]) THEN "ok" ELSE "NotFound", NoValue)
    /\ UNCHANGED <<issued, started, ctrs, calls, op, env, req, cmd, alloc, err, conc, unremoved>>

\* delete, step 1: get the environment
DeleteGet(p, id) ==
    /\ Begin(p, "delete", id, <<>>, "")
    /\ LET e == get_environment(rows, id)
       IN IF e = NoRow THEN Finish(p, "NotFound", NoValue)
          ELSE /\ cid' = [cid EXCEPT ![p] = e.container_id]
               /\ Goto(p, "d_remove")
    /\ UNCHANGED <<rows, issued, ctrs>>

\* faulty variant: a failed removal is returned to the caller
RemoveFailure_Propagated(p, f) == Finish(p, f, NoValue)

\* delete, step 2 on failure: the failure is logged and the delete goes on
RemoveFailure(p, f) ==
    /\ Goto(p, "d_delete")
    /\ UNCHANGED cid

\* delete, step 2: remove the container, best effort (a failure is only logged)
DeleteRemove(p) ==
    /\ pc[p] = "d_remove"
    /\ Invoke(p, "remove")
    /\ \/ /\ CanRemove(ctrs, cid[p])
          /\ ctrs' = remove_container(ctrs, cid[p])
          /\ Goto(p, "d_delete")
          /\ UNCHANGED <<cid, err, unremoved>>
       \/ \E f \in Failures :
            /\ ctrs' \in Outcomes(f, CanRemove(ctrs, cid[p]), ctrs, remove_container(ctrs, cid[p]))
            /\ err' = [err EXCEPT ![p] = f]
            /\ unremoved' = (unremoved \/ CanRemove(ctrs, cid[p]))
            /\ RemoveFailure(p, f)
    /\ UNCHANGED <<rows, issued, started, op, env, req, cmd, alloc, conc>>

\* delete, step 3: delete the record
DeleteRow(p) ==
    /\ pc[p] = "d_delete"
    /\ rows' = delete_environment(rows, env[p])
    /\ Finish(p, IF RowMatched(rows, env[p]) THEN "ok" ELSE "NotFound", NoValue)
    /\ UNCHANGED <<issued, started, ctrs, calls, op, env, req, cmd, alloc, err, conc, unremoved>>

\* faulty variant: exec checks the container_id but not the status
ExecAllowed_AnyStatus(e) == e.container_id # NoContainer

\* what an exec requires of the record it read
ExecAllowed(e) == e.status = "running" /\ e.container_id # NoContainer

\* exec, steps 1 and 2: get the environment, check its status and container_id
ExecGet(p, id) ==
    /\ \E command \in Commands : Begin(p, "exec", id, <<>>, command)
    /\ LET e == get_environment(rows, id)
       IN IF e = NoRow THEN Finish(p, "NotFound", NoValue)
          ELSE IF ~ExecAllowed(e) THEN Finish(p, "Conflict", NoValue)
          ELSE /\ cid' = [cid EXCEPT ![p] = e.container_id]
               /\ Goto(p, "e_exec")
    /\ UNCHANGED <<rows, issued, ctrs>>

\* faulty variant: a non-zero exit code of the command is turned into an error
ExecReturn_FailOnNonZero(p, r) ==
    IF r.exit_code = 0
    THEN Finish(p, "ok", [output |-> r.output, exit_code |-> r.exit_code])
    ELSE Finish(p, "RuntimeFailed", NoValue)

\* exec, step 4: return { output, exit_code }
ExecReturn(p, r) == Finish(p, "ok", [output |-> r.output, exit_code |-> r.exit_code])

\* exec, steps 3 and 4: run the command in the container and return its result
ExecRun(p) ==
    /\ pc[p] = "e_exec"
    /\ Invoke(p, "exec")
    /\ \/ /\ CanExec(ctrs, cid[p])
          /\ ExecReturn(p, exec_in_container(ctrs, cid[p], cmd[p]))
          /\ UNCHANGED err
       \/ /\ ~CanExec(ctrs, cid[p])
          /\ Finish(p, "RuntimeFailed", NoValue)
          /\ UNCHANGED err
       \/ \E f \in Failures :
            /\ err' = [err EXCEPT ![p] = f]
            /\ Finish(p, f, NoValue)
    /\ UNCHANGED <<rows, issued, started, ctrs, op, env, req, cmd, alloc, conc, unremoved>>

\* get: return the environment, or NotFound
Get(p, id) ==
    /\ Begin(p, "get", id, <<>>, "")
    /\ LET e == get_environment(rows, id)
       IN IF e = NoRow THEN Finish(p, "NotFound", NoValue)
          ELSE Finish(p, "ok", e)
    /\ UNCHANGED <<rows, issued, ctrs>>

Next ==
    /\ UNCHANGED <<avars, dvars, nvars, uvars, cvars>>
    /\ \E p \in Handlers :
           \/ CreateInsert(p)
           \/ CreateAllocate(p)
           \/ CreateContainer(p)
           \/ CreatePersist(p)
           \/ CreateDestroy(p)
           \/ \E id \in EnvIds : PauseGet(p, id)
           \/ PauseStop(p)
           \/ PauseUpdate(p)
           \/ \E id \in EnvIds : ResumeGet(p, id)
           \/ ResumeStart(p)
           \/ ResumeUpdate(p)
           \/ \E id \in EnvIds : DeleteGet(p, id)
           \/ DeleteRemove(p)
           \/ DeleteRow(p)
           \/ \E id \in EnvIds : ExecGet(p, id)
           \/ ExecRun(p)
           \/ \E id \in EnvIds : Get(p, id)

Spec == Init /\ [][Next]_vars

\* the steps of a create that handler p has taken up
CreateStep(p) ==
    /\ UNCHANGED <<avars, dvars, nvars, uvars, cvars>>
    /\ \/ CreateAllocate(p)
       \/ CreateContainer(p)
       \/ CreatePersist(p)
       \/ CreateDestroy(p)

\* every State Store call and every Runtime Adapter call of a create
\* returns, so a create that can take its next step takes it
LiveSpec == Init /\ [][Next]_vars /\ \A p \in Handlers : WF_vars(CreateStep(p))

\* ------------------------------------------- the Port Allocator alone

\* the ports of the ranges and used sets tried: one more than the widest range
AllocPorts == PortRangeStart..(PortRangeStart + MaxRange)

Configs ==
    {[port_range_start |-> PortRangeStart, port_range_end |-> PortRangeStart + n - 1] :
        n \in 1..MaxRange}

Requests ==
    UNION {[1..n -> {PortMapping(h) : h \in {NoPort} \cup AllocPorts}] : n \in 0..MaxRequested}

AllocInit ==
    /\ HandlersInit
    /\ ClientIdle
    /\ DashboardInit
    /\ NamingInit
    /\ DetailIdle
    /\ fetched = <<>>
    /\ in_config \in Configs
    /\ in_used \in SUBSET AllocPorts
    /\ in_requested \in Requests
    /\ out_alloc = Pending

\* allocate_ports(config, used_ports, requested) is called
Allocate ==
    /\ out_alloc = Pending
    /\ out_alloc' = allocate_ports(in_config, in_used, in_requested)
    /\ UNCHANGED <<in_config, in_used, in_requested, hvars, dvars, nvars, uvars, cvars>>

AllocNext == Allocate

AllocSpec == AllocInit /\ [][AllocNext]_vars

\* ------------------------------------------------------ DashboardPage

\* Agent.status
AgentStatuses == {"running", "blocked", "finished", "error"}

DashProjects == <<"p1", "p2">>

\* the agents api.agents.list returns for the environment of project k
AgentLists(k) ==
    UNION {[1..n -> [id : {k}, env_id : {DashProjects[k]}, status : AgentStatuses]] :
             n \in 0..MaxAgents}

\* the agent lists carry ids unique over the whole load
IdentifyAgents(k, agents) ==
    [j \in 1..Len(agents) |-> [agents[j] EXCEPT !.id = <<k, j>>]]

\* ProjectData { project, environments, agents }
ProjectData(k, agents) ==
    [project |-> DashProjects[k],
     environments |-> <<[id |-> DashProjects[k]]>>,
     agents |-> IdentifyAgents(k, agents)]

\* what loadData can get from the API
Loads ==
    {<<ProjectData(1, a), ProjectData(2, b)>> : a \in AgentLists(1), b \in AgentLists(2)}

\* faulty variant: finished agents are left out
NeedsAttention_WithoutFinished(a) == a.status = "blocked" \/ a.status = "error"

\* a.status === "blocked" || a.status === "error" || a.status === "finished"
NeedsAttention(a) == a.status = "blocked" \/ a.status = "error" \/ a.status = "finished"

\* priority[status] ?? 3
priority(status) ==
    CASE status = "blocked" -> 0
      [] status = "error" -> 1
      [] status = "finished" -> 2
      [] OTHER -> 3

\* the comparator handed to sort
compare(a, b) == priority(a.agent.status) - priority(b.agent.status)

\* p.environments.find((e) => e.id === a.env_id)
find(environments, env_id) ==
    LET hits == {i \in 1..Len(environments) : environments[i].id = env_id}
    IN IF hits = {} THEN [id |-> "undefined"]
       ELSE environments[CHOOSE i \in hits : \A j \in hits : i <= j]

\* p.agents.filter(...).map(...)
AttentionOf(p) ==
    LET kept == SelectSeq(p.agents, NeedsAttention)
    IN [j \in 1..Len(kept) |->
          [agent |-> kept[j], project |-> p.project,
           environment |-> find(p.environments, kept[j].env_id)]]

RECURSIVE flatMap(_, _)
flatMap(ps, i) == IF i > Len(ps) THEN <<>> ELSE AttentionOf(ps[i]) \o flatMap(ps, i + 1)

\* Array.prototype.sort: stable, x goes behind everything that does not
\* compare greater
RECURSIVE insert(_, _)
insert(x, sorted) ==
    IF sorted = <<>> THEN <<x>>
    ELSE IF compare(Head(sorted), x) <= 0 THEN <<Head(sorted)>> \o insert(x, Tail(sorted))
    ELSE <<x>> \o sorted

RECURSIVE sort(_, _)
sort(items, i) == IF i = 0 THEN <<>> ELSE insert(items[i], sort(items, i - 1))

\* const attentionAgents = projects.flatMap(...).sort(...)
attentionAgents ==
    LET items == flatMap(projects, 1) IN sort(items, Len(items))

DashInit ==
    /\ HandlersInit
    /\ ClientIdle
    /\ AllocatorIdle
    /\ NamingInit
    /\ DetailIdle
    /\ DashboardInit
    /\ fetched \in Loads

\* loadData: setProjects(data), setLoading(false)
LoadData ==
    /\ loading
    /\ projects' = fetched
    /\ loading' = FALSE
    /\ UNCHANGED <<fetched, hvars, avars, nvars, uvars, cvars>>

DashNext == LoadData

DashSpec == DashInit /\ [][DashNext]_vars

\* ------------------------------------------------- container naming

\* what the calls below leave alone: the locals of the concurrent handlers
hlocals == <<started, calls, pc, op, env, req, cmd, alloc, cid, err, result, ret, conc, unremoved>>

\* the names of the containers the runtime holds
NamesInUse == {container_name(uuid_of[k]) : k \in {c \in EnvIds : ctrs[c].state # "absent"}}

\* create, step 1, with the id that create_environment generates: any id
\* that is not the primary key of a row
InsertEnvironment ==
    /\ issued < MaxEnvs
    /\ \E u \in Uuids \ {uuid_of[k] : k \in {i \in EnvIds : RowMatched(rows, i)}} :
          uuid_of' = [uuid_of EXCEPT ![issued + 1] = u]
    /\ rows' = create_environment(rows, issued + 1,
                                  [project_id |-> "p1", branch |-> "feature/x",
                                   ports |-> <<PortMapping(NoPort)>>])
    /\ issued' = issued + 1
    /\ UNCHANGED <<ctrs, hlocals, avars, dvars, uvars, cvars>>

\* create, steps 2 to 5, run without interruption: podman run --name fails
\* when a container of that name exists
RunContainer(k) ==
    /\ RowMatched(rows, k) /\ rows[k].status = "creating"
    /\ LET a == allocate_ports(PodmanConfig, get_used_ports(rows), rows[k].ports)
           name == container_name(uuid_of[k])
       IN IF a.ok /\ name \notin NamesInUse /\ CanBind(ctrs, HostPorts(a.ports))
          THEN /\ ctrs' = create_container(ctrs, NewContainerId(k), HostPorts(a.ports))
               /\ rows' = update_environment_container(rows, k, NewContainerId(k), a.ports,
                                                       "running")
          ELSE /\ rows' = update_environment_status(rows, k, "destroyed")
               /\ UNCHANGED ctrs
    /\ UNCHANGED <<issued, hlocals, avars, dvars, nvars, uvars, cvars>>

\* delete, steps 1 to 3, run without interruption
RemoveEnvironment(k) ==
    /\ RowMatched(rows, k)
    /\ ctrs' = IF CanRemove(ctrs, rows[k].container_id)
               THEN remove_container(ctrs, rows[k].container_id) ELSE ctrs
    /\ rows' = delete_environment(rows, k)
    /\ UNCHANGED <<issued, hlocals, avars, dvars, nvars, uvars, cvars>>

NameNext ==
    \/ InsertEnvironment
    \/ \E k \in EnvIds : RunContainer(k)
    \/ \E k \in EnvIds : RemoveEnvironment(k)

NameSpec == Init /\ [][NameNext]_vars

\* ---------------------------------------------- EnvironmentDetailPage

\* Environment.status as the daemon holds it; "gone" when the row is deleted
BackendStatuses == {"creating", "running", "paused", "destroyed", "gone"}

\* what other requests can do to the environment while the page is open
BackendMoves ==
    {<<"creating", "running">>, <<"creating", "destroyed">>,
     <<"running", "paused">>, <<"paused", "running">>}
    \cup {<<st, "gone">> : st \in BackendStatuses \ {"gone"}}

\* the lifecycle actions of the page: three buttons and the terminal form
PageActions == {"pause", "resume", "delete", "exec"}

\* the early returns of the render: Loading..., and error || !environment
PageShown == ~page.navigated /\ ~page.loading /\ ~(page.error \/ page.environment = "null")

\* faulty variant: Pause is rendered like Delete
Rendered_PauseUnlessDestroyed(a) ==
    /\ PageShown
    /\ CASE a = "pause" -> page.environment # "destroyed"
         [] a = "resume" -> page.environment = "paused"
         [] a = "delete" -> page.environment # "destroyed"
         [] a = "exec" -> page.environment = "running"

\* the conditions under which the JSX renders each control
Rendered(a) ==
    /\ PageShown
    /\ CASE a = "pause" -> page.environment = "running"
         [] a = "resume" -> page.environment = "paused"
         [] a = "delete" -> page.environment # "destroyed"
         [] a = "exec" -> page.environment = "running"

\* disabled={actionLoading} on the buttons, disabled={execLoading} on the form
Disabled(a) == IF a = "exec" THEN page.execLoading ELSE page.actionLoading

DetailInit ==
    /\ HandlersInit
    /\ ClientIdle
    /\ AllocatorIdle
    /\ DashboardInit
    /\ NamingInit
    /\ fetched = <<>>
    /\ PageInit
    /\ backend \in BackendStatuses

\* loadData resolves or rejects: setEnvironment(env) or setError, then
\* setLoading(false); a handler that awaited it runs its finally
LoadDataDone ==
    /\ page.loading /\ ~page.navigated
    /\ \E loaded \in BOOLEAN :
          /\ loaded => backend # "gone"
          /\ page' = [page EXCEPT
                         !.loading = FALSE,
                         !.error = ~loaded,
                         !.environment = IF loaded THEN backend ELSE @,
                         !.actionLoading = IF page.pending = "reload" THEN FALSE ELSE @,
                         !.pending = IF page.pending = "reload" THEN "none" ELSE @]
    /\ UNCHANGED backend

\* handlePause, handleResume, handleDelete up to the await of the request
Click(a) ==
    /\ a \in {"pause", "resume", "delete"}
    /\ Rendered(a) /\ ~Disabled(a)
    /\ page' = [page EXCEPT !.actionLoading = TRUE, !.pending = a]
    /\ UNCHANGED backend

\* the status a request needs to find, and the one it leaves
Needs(a) == IF a = "pause" THEN "running" ELSE "paused"
Leaves(a) == IF a = "pause" THEN "paused" ELSE "running"

\* the pause or resume request resolves (then loadData starts: setLoading(true),
\* setError(null)) or rejects (setError, setActionLoading(false))
PauseResumeDone ==
    /\ page.pending \in {"pause", "resume"}
    /\ \/ /\ backend = Needs(page.pending)
          /\ backend' = Leaves(page.pending)
          /\ page' = [page EXCEPT !.loading = TRUE, !.error = FALSE, !.pending = "reload"]
       \/ /\ page' = [page EXCEPT !.error = TRUE, !.actionLoading = FALSE, !.pending = "none"]
          /\ UNCHANGED backend

\* the delete request resolves (navigate away) or rejects
DeleteDone ==
    /\ page.pending = "delete"
    /\ \/ /\ backend # "gone"
          /\ backend' = "gone"
          /\ page' = [page EXCEPT !.navigated = TRUE, !.pending = "none"]
       \/ /\ page' = [page EXCEPT !.error = TRUE, !.actionLoading = FALSE, !.pending = "none"]
          /\ UNCHANGED backend

\* what the user can have typed into the terminal's input
Typed == {"", "ls"}

\* onChange of the terminal's input: setCommand
TypeCommand ==
    /\ Rendered("exec") /\ ~Disabled("exec")
    /\ \E text \in Typed \ {page.command} : page' = [page EXCEPT !.command = text]
    /\ UNCHANGED backend

\* handleExec up to the await of the request; an empty command returns early
SubmitExec ==
    /\ Rendered("exec") /\ ~Disabled("exec")
    /\ page.command # ""
    /\ page' = [page EXCEPT !.execLoading = TRUE]
    /\ UNCHANGED backend

\* the exec request resolves (setCommand("")) or rejects; setExecLoading(false)
ExecDone ==
    /\ page.execLoading
    /\ \E done \in BOOLEAN :
          /\ done => backend = "running"
          /\ page' = [page EXCEPT !.execLoading = FALSE,
                                  !.command = IF done THEN "" ELSE @]
    /\ UNCHANGED backend

\* another client's request changes the environment
BackendMove ==
    /\ ~page.navigated
    /\ \E st \in BackendStatuses : <<backend, st>> \in BackendMoves /\ backend' = st
    /\ UNCHANGED page

DetailNext ==
    /\ UNCHANGED <<hvars, avars, dvars, nvars, cvars>>
    /\ \/ LoadDataDone
       \/ \E a \in PageActions : Click(a)
       \/ PauseResumeDone
       \/ DeleteDone
       \/ TypeCommand
       \/ SubmitExec
       \/ ExecDone
       \/ BackendMove

DetailSpec == DetailInit /\ [][DetailNext]_vars

\* --------------------------------------------------------- API client

\* the status of a response that has no content
NoContent == 204

\* the HTTP statuses a response may carry
HttpStatuses == {200, 201, NoContent, 299, 300, 304, 400, 404, 409, 500, 503}

\* the bodies a response may carry: none, a JSON text, a text that is not JSON
Bodies == {"", "{}", "<html>"}

\* faulty variant: everything below 400 counts as ok
ok_Below400(status) == status < 400

\* Response.ok: the status is in the range 200-299
ok(status) == 200 <= status /\ status <= 299

\* Response.json(): the parsed value, or a SyntaxError
json(body) ==
    IF body = "{}" THEN [parsed |-> TRUE, value |-> "object"]
    ELSE [parsed |-> FALSE, value |-> "none"]

ClientInit ==
    /\ HandlersInit
    /\ AllocatorIdle
    /\ DashboardInit
    /\ NamingInit
    /\ DetailIdle
    /\ fetched = <<>>
    /\ response \in [arrives : BOOLEAN, status : HttpStatuses, body : Bodies]
    /\ promise = Fetching

\* await fetch(path, ...): the response arrives, or fetch rejects (no network)
FetchSettles ==
    /\ promise.state = "fetching"
    /\ promise' = IF response.arrives
                  THEN [promise EXCEPT !.state = "received"]
                  ELSE [promise EXCEPT !.state = "rejected", !.error = "TypeError"]
    /\ UNCHANGED response

\* the rest of request(): throw ApiError unless res.ok, return undefined
\* on 204, return res.json() otherwise
Settle ==
    /\ promise.state = "received"
    /\ promise' =
          IF ~ok(response.status)
          THEN [promise EXCEPT !.state = "rejected", !.error = "ApiError",
                               !.status = response.status]
          ELSE IF response.status = NoContent
          THEN [promise EXCEPT !.state = "resolved", !.value = "undefined"]
          ELSE LET j == json(response.body)
               IN IF j.parsed
                  THEN [promise EXCEPT !.state = "resolved", !.value = j.value,
                                       !.bodyRead = TRUE]
                  ELSE [promise EXCEPT !.state = "rejected", !.error = "SyntaxError",
                                       !.bodyRead = TRUE]
    /\ UNCHANGED response

ClientNext ==
    /\ UNCHANGED <<hvars, avars, dvars, nvars, uvars>>
    /\ \/ FetchSettles
       \/ Settle

ClientSpec == ClientInit /\ [][ClientNext]_vars

\* ------------------------------------------------------------ claims

Live(id) == RowMatched(rows, id) /\ rows[id].status # "destroyed"

Returned(p) == pc[p] = "idle" /\ op[p] # "none"

\* the step in which handler p takes up a request
Begins(p) ==
    /\ started' = started + 1
    /\ pc[p] = "idle"
    /\ \A q \in Handlers : q < p => InFlight(q)

\* the step in which handler p returns from the position at
Returns(p, at) == pc[p] = at /\ pc'[p] = "idle"

\* C1: in every reachable state the host_ports persisted by any two
\* non-destroyed environment records are disjoint.
C1_PortsDisjoint ==
    \A i \in EnvIds : \A j \in EnvIds \ {i} :
        Live(i) /\ Live(j) =>
            HostPorts(rows[i].ports) \cap HostPorts(rows[j].ports) = {}

\* two creates allocated the same port from the range and both records
\* went live with it (the double allocation behind C1)
C1_NoDoubleAllocation ==
    \A i \in EnvIds : \A j \in EnvIds \ {i} :
        /\ RowMatched(rows, i) /\ rows[i].status \in {"running", "paused"}
        /\ RowMatched(rows, j) /\ rows[j].status \in {"running", "paused"}
        => HostPorts(rows[i].ports) \cap HostPorts(rows[j].ports) = {}

\* a wishlist of one mapping with the explicit host port h
Explicit(wish, h) == Len(wish) = 1 /\ h # NoPort /\ wish[1].host_port = h

\* C2: of two concurrent creates that request the same explicit host_port,
\* held by no other non-destroyed environment, with the runtime succeeding,
\* exactly one returns a Running environment bound to that port and the
\* other returns PortConflict.
C2_ExactlyOneWins ==
    \A p \in Handlers : \A q \in Handlers \ {p} : \A h \in PortRange :
        /\ Returned(p) /\ Returned(q) /\ q \in conc[p] /\ p \in conc[q]
        /\ op[p] = "create" /\ op[q] = "create"
        /\ Explicit(req[p], h) /\ Explicit(req[q], h)
        /\ \A id \in EnvIds \ {env[p], env[q]} : Live(id) => h \notin HostPorts(rows[id].ports)
        /\ result[p] \notin Failures /\ result[q] \notin Failures
        => \E w \in {p, q} : \E l \in {p, q} \ {w} :
              /\ result[w] = "ok"
              /\ ret[w].status = "running"
              /\ HostPorts(ret[w].ports) = {h}
              /\ result[l] = "PortConflict"

\* createContainer failed or timed out in the create that handler p ran
ContainerFailed(p) == op[p] = "create" /\ calls[p] = "create" /\ err[p] \in Failures

\* C3: when createContainer fails or times out during create, the call
\* returns that error, and once it has returned the record it inserted is
\* Destroyed (or already deleted), never Creating.
C3_CreateCompensates ==
    \A p \in Handlers :
        Returned(p) /\ ContainerFailed(p) =>
            /\ result[p] = err[p]
            /\ RowMatched(rows, env[p]) => rows[env[p]].status = "destroyed"

C3_Witness ==
    \E p \in Handlers :
        /\ Returned(p) /\ ContainerFailed(p)
        /\ result[p] = "Timeout"
        /\ RowMatched(rows, env[p]) /\ rows[env[p]].status = "destroyed"

\* the allocator and createContainer both succeeded in the create p ran
StepsSucceeded(p) == op[p] = "create" /\ calls[p] = "create" /\ err[p] = "none"

\* C4: a create whose allocator step and createContainer step both succeed
\* returns an environment with status Running, a non-empty container_id and
\* a host_port on every mapping; with no other environment and a wishlist of
\* one unset mapping, the host_port is the low end of the range.
C4_HappyPath ==
    \A p \in Handlers :
        Returned(p) /\ StepsSucceeded(p) =>
            /\ result[p] = "ok"
            /\ ret[p].status = "running"
            /\ ret[p].container_id # NoContainer
            /\ Len(ret[p].ports) = Len(req[p])
            /\ \A i \in 1..Len(ret[p].ports) : ret[p].ports[i].host_port # NoPort
            /\ issued = 1 /\ req[p] = <<PortMapping(NoPort)>>
                 => ret[p].ports = <<PortMapping(PortRangeStart)>>

\* a successful create does return a Running environment on the first port
C4_ReturnsRunning ==
    \A p \in Handlers :
        Returned(p) /\ op[p] = "create" /\ result[p] = "ok" =>
            /\ ret[p].status = "running"
            /\ ret[p].container_id # NoContainer
            /\ \A i \in 1..Len(ret[p].ports) : ret[p].ports[i].host_port # NoPort
            /\ issued = 1 /\ req[p] = <<PortMapping(NoPort)>>
                 => ret[p].ports = <<PortMapping(PortRangeStart)>>

\* handler p takes up operation what on the existing environment id
Calls(p, what, id) ==
    Begins(p) /\ op'[p] = what /\ env'[p] = id /\ RowMatched(rows, id)

\* handler p answers Conflict at once: no runtime call, nothing changed
Refused(p) ==
    /\ pc'[p] = "idle"
    /\ result'[p] = "Conflict"
    /\ calls'[p] = "none"
    /\ rows' = rows
    /\ ctrs' = ctrs

\* C5: pause on an existing environment that is Creating, Paused or
\* Destroyed returns Conflict, invokes no Runtime Adapter operation and
\* leaves the record unchanged.
C5_PauseConflict ==
    [][\A p \in Handlers : \A id \in EnvIds :
          Calls(p, "pause", id) /\ rows[id].status \in {"creating", "paused", "destroyed"}
              => Refused(p)]_vars

C5_Witness ==
    \E p \in Handlers :
        /\ Returned(p) /\ op[p] = "pause" /\ result[p] = "Conflict"
        /\ calls[p] = "none" /\ conc[p] = {}
        /\ rows[env[p]].status = "paused"

\* C6: resume on an existing environment that is not Paused returns
\* Conflict, invokes no Runtime Adapter operation and leaves the record
\* unchanged.
C6_ResumeConflict ==
    [][\A p \in Handlers : \A id \in EnvIds :
          Calls(p, "resume", id) /\ rows[id].status # "paused" => Refused(p)]_vars

C6_Witness ==
    \E p \in Handlers :
        /\ Returned(p) /\ op[p] = "resume" /\ result[p] = "Conflict"
        /\ calls[p] = "none" /\ conc[p] = {}
        /\ rows[env[p]].status = "running"

\* C7: exec on an existing environment that is not Running, or whose
\* container_id is empty, returns Conflict without invoking execInContainer;
\* a handler only gets to invoke execInContainer for a record it read as
\* Running with a non-empty container_id.
C7_ExecConflict ==
    [][\A p \in Handlers :
          /\ \A id \in EnvIds :
               /\ Calls(p, "exec", id)
               /\ rows[id].status # "running" \/ rows[id].container_id = NoContainer
               => Refused(p)
          /\ pc'[p] = "e_exec" /\ pc[p] # "e_exec" =>
               /\ Calls(p, "exec", env'[p])
               /\ rows[env'[p]].status = "running"
               /\ rows[env'[p]].container_id # NoContainer
               /\ cid'[p] = rows[env'[p]].container_id
          /\ calls'[p] = "exec" /\ calls[p] # "exec" => pc[p] = "e_exec"]_vars

C7_Witness ==
    \E p \in Handlers :
        /\ Returned(p) /\ op[p] = "exec" /\ result[p] = "Conflict"
        /\ calls[p] = "none" /\ conc[p] = {}
        /\ rows[env[p]].status = "paused"

\* C8: of two concurrent pause calls on the same Running environment
\* exactly one returns success and the other Conflict; never both succeed.
C8_OnePauseWins ==
    \A p \in Handlers : \A q \in Handlers \ {p} :
        /\ Returned(p) /\ Returned(q) /\ q \in conc[p] /\ p \in conc[q]
        /\ op[p] = "pause" /\ op[q] = "pause" /\ env[p] = env[q]
        => ~(result[p] = "ok" /\ result[q] = "ok")

\* the fields of a record that no pause or resume may touch
Identity(r) ==
    [ports |-> r.ports, container_id |-> r.container_id,
     branch |-> r.branch, project_id |-> r.project_id]

\* C9: a successful pause of a Running environment yields Paused and a
\* following successful resume yields Running; through both, the record's
\* ports (every host_port), container_id, branch and project_id stay what
\* they were, and neither operation runs the allocator.
C9_RoundTrip ==
    [][/\ \A p \in Handlers :
            /\ Returns(p, "p_update") /\ result'[p] = "ok" =>
                 rows'[env[p]] = [rows[env[p]] EXCEPT !.status = "paused"]
            /\ Returns(p, "r_update") /\ result'[p] = "ok" =>
                 rows'[env[p]] = [rows[env[p]] EXCEPT !.status = "running"]
            /\ op'[p] \in {"pause", "resume"} =>
                 alloc'[p] = <<>> /\ pc'[p] \notin {"c_alloc", "c_container", "c_persist"}
       /\ \A id \in EnvIds :
            /\ RowMatched(rows, id) /\ rows[id].status \in {"running", "paused"}
            /\ RowMatched(rows', id)
            => Identity(rows'[id]) = Identity(rows[id])]_vars

C9_Witness ==
    \E p \in Handlers :
        /\ Returned(p) /\ op[p] = "resume" /\ result[p] = "ok"
        /\ rows[env[p]].status = "running"
        /\ rows[env[p]].ports = <<PortMapping(PortRangeStart)>>
        /\ rows[env[p]].container_id # NoContainer

\* C10: usedPorts is the set of host_ports of the non-destroyed records, so
\* once delete(id) has returned, or a create has ended in Destroyed, that
\* environment's host_ports are not in usedPorts, and a later create with an
\* unset host_port gets the lowest free port of the range.
C10_DeleteFreesPorts ==
    [][\A p \in Handlers :
          /\ Returns(p, "d_delete") /\ result'[p] = "ok" =>
               HostPorts(rows[env[p]].ports) \cap get_used_ports(rows') = {}
          /\ Returns(p, "c_destroy") /\ RowMatched(rows', env[p]) =>
               HostPorts(rows'[env[p]].ports) \cap get_used_ports(rows') = {}
          /\ pc[p] = "c_alloc" /\ pc'[p] = "c_container" /\ req[p] = <<PortMapping(NoPort)>> =>
               /\ alloc'[p][1].host_port \in PortRange \ get_used_ports(rows)
               /\ \A h \in PortRange \ get_used_ports(rows) : alloc'[p][1].host_port <= h]_vars

\* what does hold: a delete, or a create ending in Destroyed, takes exactly
\* that record's contribution out of usedPorts
C10_OwnPortsFreed ==
    [][\A p \in Handlers :
          Returns(p, "d_delete") \/ (Returns(p, "c_destroy") /\ RowMatched(rows, env[p])) =>
              get_used_ports(rows') =
                  UNION {HostPorts(rows[id].ports) :
                           id \in {i \in EnvIds \ {env[p]} : Live(i)}}]_vars

\* C11: delete returns success or NotFound and nothing else, also when
\* removeContainer failed or timed out; it returns success whenever the
\* record still exists at its last step, and once it has returned the record
\* is gone.
C11_DeleteNeverFails ==
    [][\A p \in Handlers :
          pc[p] \in {"d_remove", "d_delete"} /\ pc'[p] = "idle" =>
              /\ pc[p] = "d_delete"
              /\ result'[p] \in {"ok", "NotFound"}
              /\ RowMatched(rows, env[p]) => result'[p] = "ok"
              /\ ~RowMatched(rows', env[p])]_vars

C11_Witness ==
    \E p \in Handlers :
        /\ Returned(p) /\ op[p] = "delete" /\ result[p] = "ok"
        /\ calls[p] = "remove" /\ err[p] = "Timeout"
        /\ ~RowMatched(rows, env[p])
        /\ ctrs[NewContainerId(env[p])].state = "running"

\* C12: get, pause, resume, exec and delete on an id that has no row return
\* NotFound at once and change no record and no container; a delete that
\* returned success has removed the row, and the row of an id once issued
\* never comes back, so a later get or delete of it returns NotFound.
C12_DeletedMeansGone ==
    [][/\ \A p \in Handlers : \A id \in EnvIds :
            /\ Begins(p) /\ env'[p] = id /\ ~RowMatched(rows, id)
            /\ op'[p] \in {"get", "pause", "resume", "exec", "delete"}
            => /\ pc'[p] = "idle"
               /\ result'[p] = "NotFound"
               /\ calls'[p] = "none"
               /\ rows' = rows
               /\ ctrs' = ctrs
       /\ \A p \in Handlers :
            Returns(p, "d_delete") /\ result'[p] = "ok" => ~RowMatched(rows', env[p])
       /\ \A id \in EnvIds :
            id <= issued /\ ~RowMatched(rows, id) => ~RowMatched(rows', id)]_vars

C12_Witness ==
    \E p \in Handlers : \E q \in Handlers :
        /\ Returned(p) /\ op[p] = "get" /\ result[p] = "NotFound"
        /\ Returned(q) /\ op[q] = "delete" /\ result[q] = "ok"
        /\ env[p] = env[q] /\ env[p] <= issued
        /\ conc[p] = {}

\* the allocator failed in the create that handler p runs or ran
AllocatorFailed(p) == op[p] = "create" /\ err[p] \in {"PortConflict", "RangeExhausted"}

RuntimeStepFailed(p, what) ==
    Returned(p) /\ op[p] = what /\ calls[p] # "none" /\ result[p] \in Failures

\* C14: when stopContainer in pause or startContainer in resume fails or
\* times out, the call returns that error without writing the record: the
\* step that returns leaves every row as it is, and after a call that no
\* other call overlapped the status is still Running (pause) or Paused
\* (resume).
C14_NoOptimisticUpdate ==
    /\ [][\A p \in Handlers :
             pc[p] \in {"p_stop", "r_start"} /\ pc'[p] # pc[p] =>
                 /\ rows' = rows
                 /\ pc'[p] = "idle" <=> result'[p] \in Failures
                 /\ err'[p] # "none" => pc'[p] = "idle" /\ result'[p] = err'[p]]_vars
    /\ [](\A p \in Handlers :
             /\ RuntimeStepFailed(p, "pause") /\ conc[p] = {} =>
                  RowMatched(rows, env[p]) /\ rows[env[p]].status = "running"
             /\ RuntimeStepFailed(p, "resume") /\ conc[p] = {} =>
                  RowMatched(rows, env[p]) /\ rows[env[p]].status = "paused")

C14_Witness ==
    \E p \in Handlers :
        /\ RuntimeStepFailed(p, "pause") /\ conc[p] = {}
        /\ result[p] = "Timeout"
        /\ rows[env[p]].status = "running"
        /\ ctrs[rows[env[p]].container_id].state = "stopped"

C16_ExecNoStateEffect ==
    [][\A p \in Handlers :
          /\ (Begins(p) /\ op'[p] = "exec") \/ (pc[p] = "e_exec" /\ pc'[p] # pc[p]) =>
               rows' = rows /\ ctrs' = ctrs
          /\ Returns(p, "e_exec") /\ CanExec(ctrs, cid[p]) /\ err'[p] = "none" =>
               /\ result'[p] = "ok"
               /\ ret'[p] = exec_in_container(ctrs, cid[p], cmd[p])]_vars

C16_Witness ==
    \E p \in Handlers :
        /\ Returned(p) /\ op[p] = "exec" /\ result[p] = "ok"
        /\ cmd[p] = "false" /\ ret[p] = [output |-> "", exit_code |-> 1]
        /\ rows[env[p]].status = "running"
        /\ ctrs[rows[env[p]].container_id].state = "running"

\* allocate_ports has returned
Allocated == out_alloc # Pending

\* requested[i] carries an explicit host_port that is in used_ports
ConflictAt(i) ==
    in_requested[i].host_port # NoPort /\ in_requested[i].host_port \in in_used

ConfigRange == in_config.port_range_start..in_config.port_range_end

\* the call reaches requested[i]: the mappings before it can be allocated,
\* and leave the working used set given
WorkingUsedAt(i) ==
    LET before == allocate_ports(in_config, in_used, SubSeq(in_requested, 1, i - 1))
    IN IF before.ok THEN in_used \cup HostPorts(before.ports) ELSE {NoPort}

AllUnset == \A i \in 1..Len(in_requested) : in_requested[i].host_port = NoPort

\* C18: allocate fails with RangeExhausted whenever it reaches a mapping
\* with unset host_port while every port of the range is in the working
\* used set; so a wishlist of unset mappings fails exactly when it is longer
\* than the range has free ports, and one unset mapping fails when the whole
\* range is in usedPorts.
C18_RangeExhausted ==
    Allocated =>
        /\ \A i \in 1..Len(in_requested) :
              /\ in_requested[i].host_port = NoPort
              /\ NoPort \notin WorkingUsedAt(i)
              /\ ConfigRange \subseteq WorkingUsedAt(i)
              => out_alloc = AllocErr("RangeExhausted")
        /\ AllUnset =>
              IF Len(in_requested) > Cardinality(ConfigRange \ in_used)
              THEN out_alloc = AllocErr("RangeExhausted")
              ELSE out_alloc.ok
        /\ ConfigRange \subseteq in_used /\ in_requested = <<PortMapping(NoPort)>>
              => out_alloc = AllocErr("RangeExhausted")

C18_Witness ==
    /\ Allocated
    /\ in_requested = <<PortMapping(NoPort), PortMapping(NoPort)>>
    /\ Cardinality(ConfigRange \ in_used) = 1
    /\ out_alloc = AllocErr("RangeExhausted")

\* C19: a create that failed in the Allocator is surfaced in the 4xx class
\* and a create that failed in the Runtime Adapter in the 5xx class, so the
\* class alone tells the two apart.
C19_ErrorClasses ==
    \A p \in Handlers :
        Returned(p) /\ op[p] = "create" =>
            /\ AllocatorFailed(p) => ErrorClass(result[p]) = "4xx"
            /\ ContainerFailed(p) => ErrorClass(result[p]) = "5xx"

\* every agent of the loaded projects
LoadedAgents ==
    UNION {{projects[k].agents[j] : j \in 1..Len(projects[k].agents)} :
             k \in 1..Len(projects)}

\* C20: the Needs Attention list holds exactly the loaded agents whose
\* status is blocked, error or finished, each once and none running, and in
\* it every blocked agent precedes every error agent, which precedes every
\* finished agent.
C20_AttentionQueue ==
    LET q == attentionAgents
    IN /\ {q[i].agent : i \in 1..Len(q)} =
            {a \in LoadedAgents : a.status \in {"blocked", "error", "finished"}}
       /\ \A i \in 1..Len(q) : \A j \in 1..Len(q) : q[i].agent = q[j].agent => i = j
       /\ \A i \in 1..Len(q) : q[i].agent.status # "running"
       /\ \A i \in 1..Len(q) : \A j \in 1..Len(q) :
             /\ q[i].agent.status = "blocked" /\ q[j].agent.status \in {"error", "finished"}
                  => i < j
             /\ q[i].agent.status = "error" /\ q[j].agent.status = "finished" => i < j

C20_Witness ==
    /\ ~loading
    /\ Len(projects[1].agents) = 2 /\ Len(projects[2].agents) = 2
    /\ projects[1].agents[1].status = "finished"
    /\ projects[1].agents[2].status = "running"
    /\ projects[2].agents[1].status = "error"
    /\ projects[2].agents[2].status = "blocked"
    /\ Len(attentionAgents) = 3
    /\ attentionAgents[1].agent.id = <<2, 2>>
    /\ attentionAgents[3].agent.id = <<1, 1>>

\* C21: a single create (no call overlapped it) whose wishlist sets an
\* explicit host_port that no other non-destroyed record persists, with the
\* runtime succeeding, returns a Running environment bound to that port; its
\* own Creating row does not make the allocator fail with PortConflict.
C21_NoSelfConflict ==
    \A p \in Handlers : \A h \in PortRange :
        /\ Returned(p) /\ op[p] = "create" /\ conc[p] = {}
        /\ Explicit(req[p], h)
        /\ \A id \in EnvIds \ {env[p]} : Live(id) => h \notin HostPorts(rows[id].ports)
        /\ result[p] \notin Failures
        => /\ result[p] = "ok"
           /\ ret[p].status = "running"
           /\ HostPorts(ret[p].ports) = {h}

\* the lifecycle status of environment id in the table rs: a row that was
\* deleted counts as destroyed, an id not yet generated as new
StatusOf(rs, n, id) ==
    IF RowMatched(rs, id) THEN rs[id].status
    ELSE IF id <= n THEN "destroyed" ELSE "new"

\* the transitions of the lifecycle
LegalTransitions ==
    {<<"new", "creating">>, <<"creating", "running">>, <<"creating", "destroyed">>,
     <<"running", "paused">>, <<"paused", "running">>,
     <<"running", "destroyed">>, <<"paused", "destroyed">>}

C23_ContainerIdentity ==
    /\ [](\A id \in EnvIds :
             RowMatched(rows, id) =>
                 /\ rows[id].status \in {"running", "paused"} =>
                      /\ rows[id].container_id # NoContainer
                      /\ \A i \in 1..Len(rows[id].ports) : rows[id].ports[i].host_port # NoPort
                 /\ rows[id].status = "creating" => rows[id].container_id = NoContainer)
    /\ [][\A id \in EnvIds :
             /\ RowMatched(rows, id) /\ rows[id].container_id # NoContainer
             /\ RowMatched(rows', id) /\ rows'[id].container_id # NoContainer
             => rows'[id].container_id = rows[id].container_id]_vars

\* one record Paused with its container and port, another still Creating
C23_Witness ==
    \E i \in EnvIds : \E j \in EnvIds \ {i} :
        /\ RowMatched(rows, i) /\ rows[i].status = "paused"
        /\ rows[i].container_id = NewContainerId(i)
        /\ rows[i].ports = <<PortMapping(PortRangeStart)>>
        /\ RowMatched(rows, j) /\ rows[j].status = "creating"
        /\ rows[j].container_id = NoContainer

\* no operation is in flight
Quiescent == \A p \in Handlers : ~InFlight(p)

\* the Running or Paused records whose container_id is c
OwnersOf(c) ==
    {id \in EnvIds : /\ RowMatched(rows, id)
                     /\ rows[id].status \in {"running", "paused"}
                     /\ rows[id].container_id = c}

\* C24: when no removeContainer has failed, in every state in which no
\* operation is in flight every container that exists in the runtime is the
\* container_id of exactly one record whose status is Running or Paused.
C24_NoOrphanedContainer ==
    Quiescent /\ ~unremoved =>
        \A c \in EnvIds : ctrs[c].state # "absent" => Cardinality(OwnersOf(c)) = 1

\* handler p is inside a create call
Creating(p) == pc[p] \in {"c_alloc", "c_container", "c_persist", "c_destroy"}

EarlierPorts(i) == {out_alloc.ports[j].host_port : j \in 1..(i - 1)}

\* C26: when allocate succeeds, the returned list has the length and order
\* of the request, with name, container_port, protocol and every explicit
\* host_port unchanged, and each mapping whose host_port was unset has the
\* smallest port of the range that is neither in usedPorts nor kept or
\* assigned for an earlier entry of the call.
C26_FirstFreeScan ==
    Allocated /\ out_alloc.ok =>
        /\ Len(out_alloc.ports) = Len(in_requested)
        /\ \A i \in 1..Len(in_requested) :
              LET m == in_requested[i]
                  a == out_alloc.ports[i]
                  free == ConfigRange \ (in_used \cup EarlierPorts(i))
              IN /\ [a EXCEPT !.host_port = NoPort] = [m EXCEPT !.host_port = NoPort]
                 /\ m.host_port # NoPort => a.host_port = m.host_port
                 /\ m.host_port = NoPort =>
                      /\ a.host_port \in free
                      /\ \A q \in free : a.host_port <= q

\* an explicit low port is kept and the unset mapping behind it gets the next
C26_Witness ==
    /\ Allocated
    /\ ConfigRange = PortRangeStart..(PortRangeStart + 1)
    /\ in_used = {}
    /\ in_requested = <<PortMapping(PortRangeStart), PortMapping(NoPort)>>
    /\ out_alloc = AllocOk(<<PortMapping(PortRangeStart), PortMapping(PortRangeStart + 1)>>)

\* the host_ports of the returned mappings are pairwise distinct and none of
\* them is in usedPorts
OutputCollisionFree ==
    /\ \A i \in 1..Len(out_alloc.ports) : \A j \in 1..Len(out_alloc.ports) :
          out_alloc.ports[i].host_port = out_alloc.ports[j].host_port => i = j
    /\ HostPorts(out_alloc.ports) \cap in_used = {}

\* requested[j] and the later requested[i] carry the same explicit host_port
SameExplicit(j, i) ==
    /\ j < i
    /\ in_requested[j].host_port # NoPort
    /\ in_requested[i].host_port = in_requested[j].host_port

\* requested[j] is unset, the call reaches it and assigns it the port that
\* the later requested[i] sets explicitly
ExplicitHitsAssigned(j, i) ==
    /\ j < i
    /\ in_requested[j].host_port = NoPort
    /\ NoPort \notin WorkingUsedAt(j)
    /\ first_free(in_config, WorkingUsedAt(j)) # NoPort
    /\ in_requested[i].host_port = first_free(in_config, WorkingUsedAt(j))

\* requested[i] collides with an earlier entry of the same call
CollidesAt(i) ==
    \E j \in 1..Len(in_requested) : SameExplicit(j, i) \/ ExplicitHitsAssigned(j, i)

C28_UniqueNames ==
    \A i \in EnvIds : \A j \in EnvIds \ {i} :
        Live(i) /\ Live(j) =>
            /\ uuid_of[i] # uuid_of[j]
            /\ container_name(uuid_of[i]) # container_name(uuid_of[j])

\* the controls the page renders
Offered == {a \in PageActions : Rendered(a)}

\* C29: on the Environment Detail page a pause request is issued only when
\* the last loaded status is running, a resume request only when it is
\* paused, a delete request only when it is not destroyed, an exec request
\* only when it is running; for status creating only delete is offered and
\* for status destroyed no lifecycle action is offered.
C29_UiGating ==
    /\ [][/\ page'.pending = "pause" /\ page.pending # "pause" =>
               page.environment = "running"
          /\ page'.pending = "resume" /\ page.pending # "resume" =>
               page.environment = "paused"
          /\ page'.pending = "delete" /\ page.pending # "delete" =>
               page.environment \in {"creating", "running", "paused"}
          /\ page'.execLoading /\ ~page.execLoading =>
               page.environment = "running"]_vars
    /\ [](/\ page.environment = "creating" => Offered \subseteq {"delete"}
          /\ page.environment = "creating" /\ PageShown => Offered = {"delete"}
          /\ page.environment = "destroyed" => Offered = {}
          /\ page.environment = "running" /\ PageShown => Offered = {"pause", "delete", "exec"}
          /\ page.environment = "paused" /\ PageShown => Offered = {"resume", "delete"})

\* the page shows a Creating environment and its delete request is in flight
C29_Witness ==
    /\ page.environment = "creating"
    /\ PageShown
    /\ page.pending = "delete"
    /\ page.actionLoading

\* the promise has resolved or rejected after a response arrived
Answered == response.arrives /\ promise.state \in {"resolved", "rejected"}

\* C30: the promise of a request resolves only when the response is OK
\* (2xx); on a non-OK response it rejects with an ApiError carrying that
\* status and never resolves with a value; on a 204 response it resolves to
\* undefined without reading the body.
C30_ClientErrors ==
    /\ promise.state = "resolved" =>
          response.arrives /\ response.status \in 200..299
    /\ Answered /\ response.status \notin 200..299 =>
          /\ promise.state = "rejected"
          /\ promise.error = "ApiError"
          /\ promise.status = response.status
          /\ promise.value = "none"
    /\ Answered /\ response.status = 204 =>
          /\ promise.state = "resolved"
          /\ promise.value = "undefined"
          /\ ~promise.bodyRead

\* a 409 was turned into an ApiError with status 409
C30_Witness ==
    /\ Answered
    /\ response.status = 409
    /\ promise.state = "rejected" /\ promise.error = "ApiError" /\ promise.status = 409

====
